---- MODULE Spec2Model ----
(***************************************************************************)
(* Model of pi_monte_carlo.cu: the host program main() and the device      *)
(* kernel estimate_pi_kernel (one process per CUDA thread, grouped in      *)
(* blocks, synchronised by __syncthreads).                                 *)
(*                                                                         *)
(* Scaling.  TLC's integers are 32 bits wide, so the program's unsigned    *)
(* 64-bit arithmetic is modelled at a reduced width: every                 *)
(* unsigned long long operation is taken modulo ULL_MOD = 2^UllBits.  The  *)
(* block size (256 in the source), the blocks per multiprocessor (32) and  *)
(* the default sample count (2^30) are scaled down with it; each scaled    *)
(* definition names the source value in its comment.                       *)
(***************************************************************************)
EXTENDS Integers, Sequences, FiniteSets, TLC

----------------------------------------------------------------------------
(* Bounds of the model *)

\* width in bits of the modelled unsigned long long (64 in the source)
UllBits == 6
\* largest value of time(NULL) used as the seed
MaxSeed == 0
\* largest synthetic per-worker hit count fed to the reduction alone
MaxHit == 3
\* the generator's variates are the multiples k / CoordSteps, k in 1 .. CoordSteps
CoordSteps == 5
\* largest samples_per_thread given to the kernel run on its own
MaxSamples == 3

----------------------------------------------------------------------------
(* Program constants *)

\* 2^64 in the source: the modulus of unsigned long long arithmetic
ULL_MOD == 2^UllBits
ULLONG_MAX == ULL_MOD - 1

\* #define THREADS_PER_BLOCK 256 (scaled: a power of two, two halving steps)
THREADS_PER_BLOCK == 4

\* props.multiProcessorCount * 32 (scaled)
BLOCKS_PER_SM == 1

\* unsigned long long total_samples = 1ULL << 30 (scaled: 1ULL << DefaultShift)
DefaultShift == 3

\* 2^32 in the source: the modulus of unsigned int arithmetic (scaled with
\* the grid: the largest grid considered has UINT_MOD threads)
UintBits == 3
UINT_MOD == 2^UintBits

EXIT_FAILURE == 1

\* exit status of a process ended by std::terminate -> abort() (128 + SIGABRT)
EXIT_ABORT == 134

\* a value no program variable holds: an uninitialised memory cell
Uninit == 0 - 1

\* no exit status yet: the process is running
NoExit == 0 - 1

\* props.multiProcessorCount of the devices considered
DeviceSMs == {1, 2}

\* what a read of an uninitialised cell may return
GarbageVals == {0, ULLONG_MAX}

ReadVals(x) == IF x = Uninit THEN GarbageVals ELSE {x}

----------------------------------------------------------------------------
(* Command line *)

\* argc == 1: no argv[1]
NoArg == <<"<none>">>

DigitChars == <<"0", "1", "2", "3", "4", "5", "6", "7", "8", "9">>

\* the decimal numeral of n
RECURSIVE Numeral(_)
Numeral(n) ==
  IF n < 10 THEN <<DigitChars[n + 1]>>
  ELSE Append(Numeral(n \div 10), DigitChars[(n % 10) + 1])

\* the command lines considered, argv[1] as a sequence of characters: none,
\* not a number, zero, a number followed by a letter, the largest
\* unsigned long long, and the number after it
Argvs ==
  { NoArg,
    <<"a", "b", "c">>,
    <<"0">>,
    <<"1", "a">>,
    Numeral(ULLONG_MAX),
    Numeral(ULL_MOD) }

IsDigit(c) == \E d \in 1..10 : DigitChars[d] = c

DigitVal(c) == (CHOOSE d \in 1..10 : DigitChars[d] = c) - 1

IsSpace(c) == c = " "

\* index of the first character of str at or after i that is not white space
RECURSIVE SkipSpace(_, _)
SkipSpace(str, i) ==
  IF i <= Len(str) /\ IsSpace(str[i]) THEN SkipSpace(str, i + 1) ELSE i

\* strtoull's digit loop from index i: <<value, digits consumed, overflowed>>
RECURSIVE ParseDigits(_, _, _, _, _)
ParseDigits(str, i, acc, n, ovf) ==
  IF i <= Len(str) /\ IsDigit(str[i])
    THEN LET v == acc * 10 + DigitVal(str[i])
         IN  IF ovf \/ v > ULLONG_MAX
               THEN ParseDigits(str, i + 1, ULLONG_MAX, n + 1, TRUE)
               ELSE ParseDigits(str, i + 1, v, n + 1, FALSE)
    ELSE <<acc, n, ovf>>

\* std::stoull(argv[1]): skips white space, takes an optional sign, converts
\* the longest run of decimal digits and ignores whatever follows it; throws
\* invalid_argument when there is no digit and out_of_range when the value
\* does not fit; a leading '-' negates the value modulo 2^64.
stoull(str) ==
  LET i0   == SkipSpace(str, 1)
      neg  == i0 <= Len(str) /\ str[i0] = "-"
      sgn  == i0 <= Len(str) /\ str[i0] \in {"-", "+"}
      i1   == IF sgn THEN i0 + 1 ELSE i0
      r    == ParseDigits(str, i1, 0, 0, FALSE)
  IN  IF r[2] = 0 THEN [kind |-> "invalid_argument", value |-> 0]
      ELSE IF r[3] THEN [kind |-> "out_of_range", value |-> 0]
      ELSE [kind |-> "ok",
            value |-> IF neg THEN (ULL_MOD - r[1]) % ULL_MOD ELSE r[1]]

----------------------------------------------------------------------------
(* State *)

VARIABLES
  \* host: main()
  argv,                  \* argv[1], or NoArg
  hpc,                   \* position of main
  total_samples,
  mpc,                   \* props.multiProcessorCount
  num_blocks,
  total_threads,
  samples_per_thread,
  actual_total_samples,
  seed,
  h_block_results,       \* std::vector<unsigned long long>
  sum_i,                 \* i of the summation loop
  total_in_circle,
  pi_estimate,
  out,                   \* lines written to std::cout
  errs,                  \* lines written to stderr / std::cerr
  exit_code,
  backend,               \* the CUDA runtime calls made so far, in order
  last_err,              \* cudaError_t of the latest runtime call
  \* device
  kstate,                \* the kernel launch: "none", "running", "failed"
  d_block_results,       \* device buffer, Uninit until written
  \* kernel: one entry per block and thread
  tpc,                   \* position of the thread
  loop_i,                \* i of the sampling loop
  local_count,
  rng,                   \* curandState_t: <<seed value, draws made>>
  red_s,                 \* s of the reduction loop
  tmp,                   \* the operand read from shared_counts[tid + s]
  nbar,                  \* __syncthreads barriers the thread has passed
  shared_counts,         \* __shared__ array of the block
  \* history
  lastw,                 \* per slot: nbar of the writer at its last write
  lastr,                 \* per slot: nbar of another thread at its last read
  br_writers             \* per block_results index: who wrote it, how often

planVars   == <<num_blocks, total_threads, samples_per_thread, actual_total_samples>>
ioVars     == <<out, errs, exit_code>>
sumVars    == <<h_block_results, sum_i, total_in_circle, pi_estimate>>
kernelVars == <<tpc, loop_i, local_count, rng, red_s, tmp, nbar, shared_counts>>
ghostVars  == <<lastw, lastr, br_writers>>
devVars    == <<kstate, d_block_results>>
hostVars   == <<argv, hpc, total_samples, mpc, planVars, seed, sumVars, ioVars,
                backend, last_err>>
vars       == <<hostVars, devVars, kernelVars, ghostVars>>

Threads == 0 .. THREADS_PER_BLOCK - 1
Blocks  == 0 .. num_blocks - 1

\* the process has not terminated
Alive == exit_code = NoExit

----------------------------------------------------------------------------
(* Sample plan: main, lines 85-92 *)

\* int num_blocks = props.multiProcessorCount * 32
NumBlocks(sm) == sm * BLOCKS_PER_SM

\* (unsigned long long)num_blocks * THREADS_PER_BLOCK
TotalThreads(nb) == (nb * THREADS_PER_BLOCK) % ULL_MOD

\* (total_samples + total_threads - 1) / total_threads, unsigned 64-bit
SamplesPerThread(T, W) == ((T + W - 1) % ULL_MOD) \div W

\* samples_per_thread * total_threads, unsigned 64-bit
ActualTotalSamples(spt, W) == (spt * W) % ULL_MOD

----------------------------------------------------------------------------
(* Host: main *)

CudaErrors == {"cudaSuccess", "cudaError"}

\* what main has after line 69, before it looks at argv
HostInit ==
  /\ hpc = "parse"
  /\ total_samples = 2^DefaultShift
  /\ mpc = 0
  /\ num_blocks = 0
  /\ total_threads = 0
  /\ samples_per_thread = 0
  /\ actual_total_samples = 0
  /\ seed = 0
  /\ h_block_results = << >>
  /\ sum_i = 0
  /\ total_in_circle = 0
  /\ pi_estimate = [kind |-> "unset", num |-> 0, den |-> 1]
  /\ out = << >>
  /\ errs = << >>
  /\ exit_code = NoExit
  /\ backend = << >>
  /\ last_err = "cudaSuccess"

KernelNone ==
  /\ kstate = "none"
  /\ d_block_results = << >>
  /\ tpc = << >>
  /\ loop_i = << >>
  /\ local_count = << >>
  /\ rng = << >>
  /\ red_s = << >>
  /\ tmp = << >>
  /\ nbar = << >>
  /\ shared_counts = << >>
  /\ lastw = << >>
  /\ lastr = << >>
  /\ br_writers = << >>

Init ==
  /\ argv \in Argvs
  /\ HostInit
  /\ KernelNone

restHost == <<argv, total_samples, mpc, planVars, seed, sumVars>>

\* lines 70-77: the argument, if any, through std::stoull
ParseArg ==
  /\ hpc = "parse"
  /\ Alive
  /\ IF argv = NoArg
       THEN /\ hpc' = "getDevice"
            /\ UNCHANGED <<total_samples, ioVars>>
       ELSE LET r == stoull(argv)
            IN  CASE r.kind = "ok" ->
                       /\ total_samples' = r.value
                       /\ hpc' = "getDevice"
                       /\ UNCHANGED ioVars
                  [] r.kind = "invalid_argument" ->
                       \* the catch clause of line 73
                       /\ errs' = Append(errs, <<"Invalid argument", argv>>)
                       /\ exit_code' = 1
                       /\ hpc' = "exited"
                       /\ UNCHANGED <<total_samples, out>>
                  [] r.kind = "out_of_range" ->
                       \* no catch clause matches: std::terminate
                       /\ errs' = Append(errs, <<"terminate", argv>>)
                       /\ exit_code' = EXIT_ABORT
                       /\ hpc' = "exited"
                       /\ UNCHANGED <<total_samples, out>>
  /\ UNCHANGED <<argv, mpc, planVars, seed, sumVars, backend, last_err,
                 devVars, kernelVars, ghostVars>>

\* exit(): the process ends and its device context, with any kernel still
\* running in it, is destroyed
Teardown ==
  /\ kstate' = "none"
  /\ tpc' = << >>
  /\ loop_i' = << >>
  /\ local_count' = << >>
  /\ rng' = << >>
  /\ red_s' = << >>
  /\ tmp' = << >>
  /\ nbar' = << >>
  /\ shared_counts' = << >>
  /\ lastw' = << >>
  /\ lastr' = << >>
  /\ br_writers' = << >>

\* a check that reports nothing and goes on whatever the call returned
CUDA_CHECK_Ignore(err, site, next) ==
  /\ hpc' = next
  /\ UNCHANGED <<ioVars, kstate, kernelVars, ghostVars>>

\* the macro of lines 11-17 applied to the result err of the call made at site
CUDA_CHECK(err, site, next) ==
  IF err = "cudaSuccess"
    THEN /\ hpc' = next
         /\ UNCHANGED <<ioVars, kstate, kernelVars, ghostVars>>
    ELSE /\ errs' = Append(errs, <<"CUDA error", site>>)
         /\ exit_code' = EXIT_FAILURE
         /\ hpc' = "exited"
         /\ Teardown
         /\ UNCHANGED out

\* CUDA_CHECK(call): main at position at makes the runtime call, which
\* returns err, and goes on to next
CudaStep(at, call, err, next) ==
  /\ hpc = at
  /\ Alive
  /\ backend' = Append(backend, call)
  /\ last_err' = err
  /\ CUDA_CHECK(err, call, next)

\* line 81
GetDevice ==
  \E err \in CudaErrors :
    /\ CudaStep("getDevice", "cudaGetDevice", err, "getProps")
    /\ UNCHANGED <<restHost, d_block_results>>

\* line 83: the device reports its multiprocessor count
GetDeviceProperties ==
  \E err \in CudaErrors, sm \in DeviceSMs :
    /\ CudaStep("getProps", "cudaGetDeviceProperties", err, "plan")
    /\ mpc' = IF err = "cudaSuccess" THEN sm ELSE mpc
    /\ UNCHANGED <<argv, total_samples, planVars, seed, sumVars,
                   d_block_results>>

\* lines 86-92
Plan ==
  /\ hpc = "plan"
  /\ Alive
  /\ num_blocks' = NumBlocks(mpc)
  /\ total_threads' = TotalThreads(num_blocks')
  /\ samples_per_thread' = SamplesPerThread(total_samples, total_threads')
  /\ actual_total_samples' = ActualTotalSamples(samples_per_thread', total_threads')
  /\ hpc' = "printPlan"
  /\ UNCHANGED <<argv, total_samples, mpc, seed, sumVars, ioVars, backend,
                 last_err, devVars, kernelVars, ghostVars>>

PlanLines == <<"GPU", "Threads per block", "Number of blocks",
               "Samples per thread", "Total samples requested",
               "Total samples actual">>

\* lines 94-99
PrintPlan ==
  /\ hpc = "printPlan"
  /\ Alive
  /\ out' = out \o PlanLines
  /\ hpc' = "malloc"
  /\ UNCHANGED <<restHost, errs, exit_code, backend, last_err,
                 devVars, kernelVars, ghostVars>>

\* lines 102-104: the host vector is value-initialised, the device buffer is not
Malloc ==
  \E err \in CudaErrors :
    /\ CudaStep("malloc", "cudaMalloc", err, "eventCreateStart")
    /\ h_block_results' = [i \in Blocks |-> 0]
    /\ d_block_results' = IF err = "cudaSuccess"
                            THEN [i \in Blocks |-> Uninit]
                            ELSE d_block_results
    /\ UNCHANGED <<argv, total_samples, mpc, planVars, seed, sum_i,
                   total_in_circle, pi_estimate>>

\* line 108
EventCreateStart ==
  \E err \in CudaErrors :
    /\ CudaStep("eventCreateStart", "cudaEventCreate(start)", err, "eventCreateStop")
    /\ UNCHANGED <<restHost, d_block_results>>

\* line 109
EventCreateStop ==
  \E err \in CudaErrors :
    /\ CudaStep("eventCreateStop", "cudaEventCreate(stop)", err, "seed")
    /\ UNCHANGED <<restHost, d_block_results>>

\* line 112: seed = time(NULL)
Seed ==
  /\ hpc = "seed"
  /\ Alive
  /\ seed' \in 0 .. MaxSeed
  /\ hpc' = "recordStart"
  /\ UNCHANGED <<argv, total_samples, mpc, planVars, sumVars, ioVars, backend,
                 last_err, devVars, kernelVars, ghostVars>>

\* line 115
EventRecordStart ==
  \E err \in CudaErrors :
    /\ CudaStep("recordStart", "cudaEventRecord(start)", err, "launch")
    /\ UNCHANGED <<restHost, d_block_results>>

----------------------------------------------------------------------------
(* Device: estimate_pi_kernel *)

\* the thread index alone, the block left out
GlobalThreadId_NoBlock(b, t) == t % UINT_MOD

\* unsigned int global_thread_id = block_id * blockDim.x + tid
GlobalThreadId(b, t) == (b * THREADS_PER_BLOCK + t) % UINT_MOD

\* curand_init(seed + global_thread_id, 0, 0, &state)
CurandInit(sd, gtid) == <<(sd + gtid) % ULL_MOD, 0>>

\* curand_uniform(&state): a variate in (0, 1], a fixed function of the
\* generator's seed value and of the number of draws made from it; the
\* variate k / CoordSteps is represented by k
CurandUniform(st) ==
  1 + ((2 * st[1] + 3 * st[2] + 3 * st[1] * st[2]) % CoordSteps)

CurandNext(st) == <<st[1], st[2] + 1>>

\* < for <=: a point on the circle is not counted
InCircle_Strict(x, y) == x * x + y * y < CoordSteps * CoordSteps

\* x * x + y * y <= 1.0f, on the numerators
InCircle(x, y) == x * x + y * y <= CoordSteps * CoordSteps

KBlocks == DOMAIN tpc

\* line 32 without its initialiser: local_count starts as whatever the
\* register holds
KernelStart_NoInit(nb, sd) ==
  /\ tpc' = [b \in 0 .. nb - 1 |-> [t \in Threads |-> "sample"]]
  /\ loop_i' = [b \in 0 .. nb - 1 |-> [t \in Threads |-> 0]]
  /\ local_count' \in [0 .. nb - 1 -> [Threads -> GarbageVals]]
  /\ rng' = [b \in 0 .. nb - 1 |->
              [t \in Threads |-> CurandInit(sd, GlobalThreadId(b, t))]]
  /\ red_s' = [b \in 0 .. nb - 1 |-> [t \in Threads |-> 0]]
  /\ tmp' = [b \in 0 .. nb - 1 |-> [t \in Threads |-> 0]]
  /\ nbar' = [b \in 0 .. nb - 1 |-> [t \in Threads |-> 0]]
  /\ shared_counts' = [b \in 0 .. nb - 1 |-> [t \in Threads |-> Uninit]]
  /\ lastw' = [b \in 0 .. nb - 1 |-> [t \in Threads |-> Uninit]]
  /\ lastr' = [b \in 0 .. nb - 1 |-> [t \in Threads |-> Uninit]]
  /\ br_writers' = [i \in 0 .. nb - 1 |-> << >>]

\* the state of every thread as the kernel starts (lines 26-36): local_count
\* is 0 and the generator is initialised; shared memory is not initialised
KernelStart(nb, sd) ==
  /\ tpc' = [b \in 0 .. nb - 1 |-> [t \in Threads |-> "sample"]]
  /\ loop_i' = [b \in 0 .. nb - 1 |-> [t \in Threads |-> 0]]
  /\ local_count' = [b \in 0 .. nb - 1 |-> [t \in Threads |-> 0]]
  /\ rng' = [b \in 0 .. nb - 1 |->
              [t \in Threads |-> CurandInit(sd, GlobalThreadId(b, t))]]
  /\ red_s' = [b \in 0 .. nb - 1 |-> [t \in Threads |-> 0]]
  /\ tmp' = [b \in 0 .. nb - 1 |-> [t \in Threads |-> 0]]
  /\ nbar' = [b \in 0 .. nb - 1 |-> [t \in Threads |-> 0]]
  /\ shared_counts' = [b \in 0 .. nb - 1 |-> [t \in Threads |-> Uninit]]
  /\ lastw' = [b \in 0 .. nb - 1 |-> [t \in Threads |-> Uninit]]
  /\ lastr' = [b \in 0 .. nb - 1 |-> [t \in Threads |-> Uninit]]
  /\ br_writers' = [i \in 0 .. nb - 1 |-> << >>]

\* line 116: estimate_pi_kernel<<<num_blocks, THREADS_PER_BLOCK>>>(...); the
\* launch is asynchronous and its error, if any, is left for cudaGetLastError
Launch ==
  /\ hpc = "launch"
  /\ Alive
  /\ backend' = Append(backend, "kernel launch")
  /\ hpc' = "getLastError"
  /\ \E ok \in BOOLEAN :
       IF ok
         THEN /\ kstate' = "running"
              /\ KernelStart(num_blocks, seed)
         ELSE /\ kstate' = "failed"
              /\ UNCHANGED <<kernelVars, ghostVars>>
  /\ UNCHANGED <<restHost, ioVars, last_err, d_block_results>>

\* the sampling loop with i <= samples_per_thread for i < samples_per_thread
SampleIter_OffByOne(b, t) ==
  /\ Alive
  /\ tpc[b][t] = "sample"
  /\ loop_i[b][t] <= samples_per_thread
  /\ LET st0 == rng[b][t]
         x   == CurandUniform(st0)
         st1 == CurandNext(st0)
         y   == CurandUniform(st1)
         st2 == CurandNext(st1)
     IN  /\ rng' = [rng EXCEPT ![b][t] = st2]
         /\ local_count' =
              [local_count EXCEPT ![b][t] =
                 IF InCircle(x, y) THEN (@ + 1) % ULL_MOD ELSE @]
  /\ loop_i' = [loop_i EXCEPT ![b][t] = (@ + 1) % ULL_MOD]
  /\ UNCHANGED <<hostVars, devVars, tpc, red_s, tmp, nbar, shared_counts, ghostVars>>

\* the sampling loop counting in shared_counts[tid] as well as in local_count
SampleIter_SharedCount(b, t) ==
  /\ Alive
  /\ tpc[b][t] = "sample"
  /\ loop_i[b][t] < samples_per_thread
  /\ LET st0 == rng[b][t]
         x   == CurandUniform(st0)
         st1 == CurandNext(st0)
         y   == CurandUniform(st1)
         st2 == CurandNext(st1)
     IN  /\ rng' = [rng EXCEPT ![b][t] = st2]
         /\ local_count' =
              [local_count EXCEPT ![b][t] =
                 IF InCircle(x, y) THEN (@ + 1) % ULL_MOD ELSE @]
         /\ shared_counts' =
              [shared_counts EXCEPT ![b][t] =
                 IF InCircle(x, y) THEN (local_count[b][t] + 1) % ULL_MOD ELSE @]
  /\ loop_i' = [loop_i EXCEPT ![b][t] = (@ + 1) % ULL_MOD]
  /\ UNCHANGED <<hostVars, devVars, tpc, red_s, tmp, nbar, ghostVars>>

\* lines 39-48: one iteration of the sampling loop
SampleIter(b, t) ==
  /\ Alive
  /\ tpc[b][t] = "sample"
  /\ loop_i[b][t] < samples_per_thread
  /\ LET st0 == rng[b][t]
         x   == CurandUniform(st0)
         st1 == CurandNext(st0)
         y   == CurandUniform(st1)
         st2 == CurandNext(st1)
     IN  /\ rng' = [rng EXCEPT ![b][t] = st2]
         /\ local_count' =
              [local_count EXCEPT ![b][t] =
                 IF InCircle(x, y) THEN (@ + 1) % ULL_MOD ELSE @]
  /\ loop_i' = [loop_i EXCEPT ![b][t] = (@ + 1) % ULL_MOD]
  /\ UNCHANGED <<hostVars, devVars, tpc, red_s, tmp, nbar, shared_counts, ghostVars>>

\* lines 50-52: the loop is over; shared_counts[tid] = local_count, and the
\* thread arrives at the first __syncthreads
Store(b, t) ==
  /\ Alive
  /\ tpc[b][t] = "sample"
  /\ ~(loop_i[b][t] < samples_per_thread)
  /\ shared_counts' = [shared_counts EXCEPT ![b][t] = local_count[b][t]]
  /\ lastw' = [lastw EXCEPT ![b][t] = nbar[b][t]]
  /\ tpc' = [tpc EXCEPT ![b][t] = "sync"]
  /\ UNCHANGED <<hostVars, devVars, loop_i, local_count, rng, red_s, tmp, nbar,
                 lastr, br_writers>>

\* barriers thread u of block b has arrived at
Arrived(b, u) == nbar[b][u] + (IF tpc[b][u] = "sync" THEN 1 ELSE 0)

\* a barrier that holds nobody back (the __syncthreads left out)
BarrierOpen_NoWait(b, t) == TRUE

\* the __syncthreads of line 52 left out: only the barriers of the loop wait
BarrierOpen_SkipFirst(b, t) ==
  nbar[b][t] = 0 \/ \A u \in Threads : Arrived(b, u) > nbar[b][t]

\* __syncthreads lets thread t go on once every thread of the block has
\* arrived at the barrier t waits at
BarrierOpen(b, t) == \A u \in Threads : Arrived(b, u) > nbar[b][t]

\* line 63 without its guard: every thread stores the result
IsWriter_All(b, t) == TRUE

\* the threads that execute line 64
IsWriter(b, t) == t = 0

\* the barrier of line 59 moved inside the guard of line 56: a thread with
\* tid >= s never reaches it and goes on to line 63
AfterBarrier_GuardedBarrier(b, t, s) ==
  IF s > 0 /\ t < s
    THEN "reduce"
    ELSE IF IsWriter(b, t) THEN "final" ELSE "done"

\* where a thread that leaves a barrier with loop variable s goes: into the
\* guarded add (line 57), past it to the next barrier (line 59), or out of
\* the loop to line 63, where only a writer has anything left to do
AfterBarrier(b, t, s) ==
  IF s > 0
    THEN IF t < s THEN "reduce" ELSE "sync"
    ELSE IF IsWriter(b, t) THEN "final" ELSE "done"

\* the halving loop started at s = blockDim.x for blockDim.x / 2
PassBarrier_FullStride(b, t) ==
  /\ Alive
  /\ tpc[b][t] = "sync"
  /\ BarrierOpen(b, t)
  /\ nbar' = [nbar EXCEPT ![b][t] = @ + 1]
  /\ LET s == IF nbar[b][t] = 0 THEN THREADS_PER_BLOCK
                                ELSE red_s[b][t] \div 2
     IN  /\ red_s' = [red_s EXCEPT ![b][t] = s]
         /\ tpc' = [tpc EXCEPT ![b][t] = AfterBarrier(b, t, s)]
  /\ UNCHANGED <<hostVars, devVars, loop_i, local_count, rng, tmp, shared_counts,
                 ghostVars>>

\* lines 52, 55, 56, 59: leave the barrier; the first time s = blockDim.x / 2,
\* after that s >>= 1; then the loop test s > 0 and the guard tid < s
PassBarrier(b, t) ==
  /\ Alive
  /\ tpc[b][t] = "sync"
  /\ BarrierOpen(b, t)
  /\ nbar' = [nbar EXCEPT ![b][t] = @ + 1]
  /\ LET s == IF nbar[b][t] = 0 THEN THREADS_PER_BLOCK \div 2
                                ELSE red_s[b][t] \div 2
     IN  /\ red_s' = [red_s EXCEPT ![b][t] = s]
         /\ tpc' = [tpc EXCEPT ![b][t] = AfterBarrier(b, t, s)]
  /\ UNCHANGED <<hostVars, devVars, loop_i, local_count, rng, tmp, shared_counts,
                 ghostVars>>

\* shared_counts[j] of block b; an index outside the array reads garbage
SharedAt(b, j) == IF j \in Threads THEN shared_counts[b][j] ELSE Uninit

\* lines 55-57: s > 0 and tid < s: read the operand shared_counts[tid + s]
ReduceRead(b, t) ==
  /\ Alive
  /\ tpc[b][t] = "reduce"
  /\ red_s[b][t] > 0
  /\ t < red_s[b][t]
  /\ \E v \in ReadVals(SharedAt(b, t + red_s[b][t])) :
       tmp' = [tmp EXCEPT ![b][t] = v]
  /\ lastr' = IF t + red_s[b][t] \in Threads
                THEN [lastr EXCEPT ![b][t + red_s[b][t]] = nbar[b][t]]
                ELSE lastr
  /\ tpc' = [tpc EXCEPT ![b][t] = "add"]
  /\ UNCHANGED <<hostVars, devVars, loop_i, local_count, rng, red_s, nbar,
                 shared_counts, lastw, br_writers>>

\* line 57 with = for +=: the thread's own count is overwritten
ReduceAdd_Overwrite(b, t) ==
  /\ Alive
  /\ tpc[b][t] = "add"
  /\ shared_counts' = [shared_counts EXCEPT ![b][t] = tmp[b][t]]
  /\ lastw' = [lastw EXCEPT ![b][t] = nbar[b][t]]
  /\ tpc' = [tpc EXCEPT ![b][t] = "sync"]
  /\ UNCHANGED <<hostVars, devVars, loop_i, local_count, rng, red_s, tmp, nbar,
                 lastr, br_writers>>

\* line 57: shared_counts[tid] += operand, then the barrier of line 59
ReduceAdd(b, t) ==
  /\ Alive
  /\ tpc[b][t] = "add"
  /\ \E own \in ReadVals(shared_counts[b][t]) :
       shared_counts' = [shared_counts EXCEPT ![b][t] = (own + tmp[b][t]) % ULL_MOD]
  /\ lastw' = [lastw EXCEPT ![b][t] = nbar[b][t]]
  /\ tpc' = [tpc EXCEPT ![b][t] = "sync"]
  /\ UNCHANGED <<hostVars, devVars, loop_i, local_count, rng, red_s, tmp, nbar,
                 lastr, br_writers>>

\* block_results[0] for block_results[block_id]
ResultIndex_Zero(b, t) == 0

\* the index of block_results thread t of block b writes
ResultIndex(b, t) == b

\* line 64: block_results[block_id] = shared_counts[0], and the thread
\* leaves the kernel
WriteResult(b, t) ==
  /\ Alive
  /\ tpc[b][t] = "final"
  /\ \E v \in ReadVals(shared_counts[b][0]) :
       d_block_results' =
         IF ResultIndex(b, t) \in DOMAIN d_block_results
           THEN [d_block_results EXCEPT ![ResultIndex(b, t)] = v]
           ELSE d_block_results
  /\ br_writers' =
       [br_writers EXCEPT ![ResultIndex(b, t)] = Append(@, <<b, t>>)]
  /\ tpc' = [tpc EXCEPT ![b][t] = "done"]
  /\ UNCHANGED <<hostVars, kstate, loop_i, local_count, rng, red_s, tmp, nbar,
                 shared_counts, lastw, lastr>>

\* every thread of every block has left the kernel
KernelDone == \A b \in KBlocks : \A t \in Threads : tpc[b][t] = "done"

----------------------------------------------------------------------------
(* Host: main, after the launch *)

\* line 117: reports the error of the launch, if it failed
GetLastError ==
  /\ CudaStep("getLastError", "cudaGetLastError",
              IF kstate = "failed" THEN "cudaError" ELSE "cudaSuccess",
              "recordStop")
  /\ UNCHANGED <<restHost, d_block_results>>

\* line 118
EventRecordStop ==
  \E err \in CudaErrors :
    /\ CudaStep("recordStop", "cudaEventRecord(stop)", err, "memcpy")
    /\ UNCHANGED <<restHost, d_block_results>>

\* a copy that does not wait for the kernel
MemcpyReady_NoWait == TRUE

\* cudaMemcpy is issued to the stream the kernel was launched in and returns
\* the data only when the work before it in that stream has completed
MemcpyReady == kstate = "running" => KernelDone

DevAt(i) == IF i \in DOMAIN d_block_results THEN d_block_results[i] ELSE Uninit

\* line 121: device to host copy of num_blocks results
Memcpy ==
  \E err \in CudaErrors :
    /\ err = "cudaSuccess" => MemcpyReady
    /\ CudaStep("memcpy", "cudaMemcpy", err, "sum")
    /\ IF err = "cudaSuccess"
         THEN h_block_results' \in
                { f \in [Blocks -> 0 .. ULLONG_MAX] :
                    \A i \in Blocks : f[i] \in ReadVals(DevAt(i)) }
         ELSE UNCHANGED h_block_results
    /\ UNCHANGED <<argv, total_samples, mpc, planVars, seed, sum_i,
                   total_in_circle, pi_estimate, d_block_results>>

\* lines 125-127: one iteration of the summation loop
SumIter ==
  /\ hpc = "sum"
  /\ Alive
  /\ sum_i < num_blocks
  /\ total_in_circle' = (total_in_circle + h_block_results[sum_i]) % ULL_MOD
  /\ sum_i' = sum_i + 1
  /\ UNCHANGED <<argv, hpc, total_samples, mpc, planVars, seed, h_block_results,
                 pi_estimate, ioVars, backend, last_err, devVars, kernelVars,
                 ghostVars>>

\* line 125: i == num_blocks ends the loop
SumExit ==
  /\ hpc = "sum"
  /\ Alive
  /\ ~(sum_i < num_blocks)
  /\ hpc' = "eventSync"
  /\ UNCHANGED <<restHost, ioVars, backend, last_err, devVars, kernelVars,
                 ghostVars>>

\* line 131
EventSynchronize ==
  \E err \in CudaErrors :
    /\ CudaStep("eventSync", "cudaEventSynchronize", err, "elapsed")
    /\ UNCHANGED <<restHost, d_block_results>>

\* line 132
EventElapsedTime ==
  \E err \in CudaErrors :
    /\ CudaStep("elapsed", "cudaEventElapsedTime", err, "estimate")
    /\ UNCHANGED <<restHost, d_block_results>>

\* the double n / d: a quotient, or what IEEE division by zero gives
DoubleDiv(n, d) ==
  IF d # 0 THEN [kind |-> "finite", num |-> n, den |-> d]
  ELSE IF n = 0 THEN [kind |-> "nan", num |-> n, den |-> d]
  ELSE [kind |-> "inf", num |-> n, den |-> d]

\* line 135: 4.0 * total_in_circle / actual_total_samples
Estimate ==
  /\ hpc = "estimate"
  /\ Alive
  /\ pi_estimate' = DoubleDiv(4 * total_in_circle, actual_total_samples)
  /\ hpc' = "printResults"
  /\ UNCHANGED <<argv, total_samples, mpc, planVars, seed, h_block_results,
                 sum_i, total_in_circle, ioVars, backend, last_err, devVars,
                 kernelVars, ghostVars>>

ResultLines == <<"Points in circle", "Kernel execution time", "Estimated Pi",
                 "Actual Pi", "Error">>

\* lines 139-144
PrintResults ==
  /\ hpc = "printResults"
  /\ Alive
  /\ out' = out \o ResultLines
  /\ hpc' = "destroyStart"
  /\ UNCHANGED <<restHost, errs, exit_code, backend, last_err, devVars,
                 kernelVars, ghostVars>>

\* line 147
EventDestroyStart ==
  \E err \in CudaErrors :
    /\ CudaStep("destroyStart", "cudaEventDestroy(start)", err, "destroyStop")
    /\ UNCHANGED <<restHost, d_block_results>>

\* line 148
EventDestroyStop ==
  \E err \in CudaErrors :
    /\ CudaStep("destroyStop", "cudaEventDestroy(stop)", err, "free")
    /\ UNCHANGED <<restHost, d_block_results>>

\* line 149
Free ==
  \E err \in CudaErrors :
    /\ CudaStep("free", "cudaFree", err, "return")
    /\ UNCHANGED <<restHost, d_block_results>>

\* line 151
Return ==
  /\ hpc = "return"
  /\ Alive
  /\ exit_code' = 0
  /\ hpc' = "exited"
  /\ UNCHANGED <<restHost, out, errs, backend, last_err, devVars, kernelVars,
                 ghostVars>>

----------------------------------------------------------------------------
(* Specifications *)

HostNext ==
  \/ ParseArg
  \/ GetDevice
  \/ GetDeviceProperties
  \/ Plan
  \/ PrintPlan
  \/ Malloc
  \/ EventCreateStart
  \/ EventCreateStop
  \/ Seed
  \/ EventRecordStart
  \/ Launch
  \/ GetLastError
  \/ EventRecordStop
  \/ Memcpy
  \/ SumIter
  \/ SumExit
  \/ EventSynchronize
  \/ EventElapsedTime
  \/ Estimate
  \/ PrintResults
  \/ EventDestroyStart
  \/ EventDestroyStop
  \/ Free
  \/ Return

\* each step of the kernel, taken by any thread of any block
SampleStep  == \E b \in KBlocks, t \in Threads : SampleIter(b, t)
StoreStep   == \E b \in KBlocks, t \in Threads : Store(b, t)
BarrierStep == \E b \in KBlocks, t \in Threads : PassBarrier(b, t)
ReadStep    == \E b \in KBlocks, t \in Threads : ReduceRead(b, t)
AddStep     == \E b \in KBlocks, t \in Threads : ReduceAdd(b, t)
ResultStep  == \E b \in KBlocks, t \in Threads : WriteResult(b, t)

ReduceNext ==
  \/ StoreStep
  \/ BarrierStep
  \/ ReadStep
  \/ AddStep
  \/ ResultStep

KernelNext ==
  \/ SampleStep
  \/ ReduceNext

Next == HostNext \/ KernelNext

\* the whole program: main and the threads of the kernel it launches
Spec == Init /\ [][Next]_vars

\* main at line 85 with any requested total and any device
InitPlan ==
  /\ argv = NoArg
  /\ num_blocks = 0
  /\ total_threads = 0
  /\ samples_per_thread = 0
  /\ actual_total_samples = 0
  /\ KernelNone
  /\ hpc = "plan"
  /\ total_samples \in 0 .. ULLONG_MAX
  /\ mpc \in DeviceSMs
  /\ seed = 0
  /\ h_block_results = << >>
  /\ sum_i = 0
  /\ total_in_circle = 0
  /\ pi_estimate = [kind |-> "unset", num |-> 0, den |-> 1]
  /\ out = << >>
  /\ errs = << >>
  /\ exit_code = NoExit
  /\ backend = <<"cudaGetDevice", "cudaGetDeviceProperties">>
  /\ last_err = "cudaSuccess"

\* the sample plan alone, over every requested total
SpecPlan == InitPlan /\ [][Plan]_vars

\* the kernel of one block at line 50, every thread through its sampling loop
\* with any hit count up to MaxHit, main waiting in cudaMemcpy
InitReduce ==
  /\ argv = NoArg
  /\ hpc = "memcpy"
  /\ mpc = 1
  /\ num_blocks = NumBlocks(1)
  /\ total_threads = TotalThreads(num_blocks)
  /\ samples_per_thread = MaxHit
  /\ total_samples = MaxHit * total_threads
  /\ actual_total_samples = ActualTotalSamples(samples_per_thread, total_threads)
  /\ seed = 0
  /\ h_block_results = [i \in Blocks |-> 0]
  /\ sum_i = 0
  /\ total_in_circle = 0
  /\ pi_estimate = [kind |-> "unset", num |-> 0, den |-> 1]
  /\ out = PlanLines
  /\ errs = << >>
  /\ exit_code = NoExit
  /\ backend = <<"cudaGetDevice", "cudaGetDeviceProperties", "cudaMalloc",
                 "cudaEventCreate(start)", "cudaEventCreate(stop)",
                 "cudaEventRecord(start)", "kernel launch", "cudaGetLastError",
                 "cudaEventRecord(stop)">>
  /\ last_err = "cudaSuccess"
  /\ kstate = "running"
  /\ d_block_results = [i \in Blocks |-> Uninit]
  /\ tpc = [b \in Blocks |-> [t \in Threads |-> "sample"]]
  /\ loop_i = [b \in Blocks |-> [t \in Threads |-> samples_per_thread]]
  /\ local_count \in [Blocks -> [Threads -> 0 .. MaxHit]]
  /\ rng = [b \in Blocks |->
             [t \in Threads |-> <<(seed + GlobalThreadId(b, t)) % ULL_MOD,
                                  2 * samples_per_thread>>]]
  /\ red_s = [b \in Blocks |-> [t \in Threads |-> 0]]
  /\ tmp = [b \in Blocks |-> [t \in Threads |-> 0]]
  /\ nbar = [b \in Blocks |-> [t \in Threads |-> 0]]
  /\ shared_counts = [b \in Blocks |-> [t \in Threads |-> Uninit]]
  /\ lastw = [b \in Blocks |-> [t \in Threads |-> Uninit]]
  /\ lastr = [b \in Blocks |-> [t \in Threads |-> Uninit]]
  /\ br_writers = [i \in Blocks |-> << >>]

\* main at line 116 with any seed and any device, the plan for the default
\* total made and printed, the buffers allocated
InitLaunch ==
  /\ argv = NoArg
  /\ hpc = "launch"
  /\ total_samples = 2^DefaultShift
  /\ mpc \in DeviceSMs
  /\ num_blocks = NumBlocks(mpc)
  /\ total_threads = TotalThreads(num_blocks)
  /\ samples_per_thread = SamplesPerThread(total_samples, total_threads)
  /\ actual_total_samples = ActualTotalSamples(samples_per_thread, total_threads)
  /\ seed \in 0 .. ULLONG_MAX
  /\ h_block_results = [i \in Blocks |-> 0]
  /\ sum_i = 0
  /\ total_in_circle = 0
  /\ pi_estimate = [kind |-> "unset", num |-> 0, den |-> 1]
  /\ out = PlanLines
  /\ errs = << >>
  /\ exit_code = NoExit
  /\ backend = <<"cudaGetDevice", "cudaGetDeviceProperties", "cudaMalloc",
                 "cudaEventCreate(start)", "cudaEventCreate(stop)",
                 "cudaEventRecord(start)">>
  /\ last_err = "cudaSuccess"
  /\ kstate = "none"
  /\ d_block_results = [i \in Blocks |-> Uninit]
  /\ tpc = << >>
  /\ loop_i = << >>
  /\ local_count = << >>
  /\ rng = << >>
  /\ red_s = << >>
  /\ tmp = << >>
  /\ nbar = << >>
  /\ shared_counts = << >>
  /\ lastw = << >>
  /\ lastr = << >>
  /\ br_writers = << >>

\* the launch alone (lines 26-36, 116), over every seed
SpecLaunch == InitLaunch /\ [][Launch]_vars

\* the kernel of one block as it starts (line 39), with any samples_per_thread
\* up to MaxSamples and any seed, main waiting in cudaMemcpy
InitKernel ==
  /\ argv = NoArg
  /\ hpc = "memcpy"
  /\ mpc = 1
  /\ num_blocks = NumBlocks(1)
  /\ total_threads = TotalThreads(num_blocks)
  /\ samples_per_thread \in 0 .. MaxSamples
  /\ total_samples = samples_per_thread * total_threads
  /\ actual_total_samples = ActualTotalSamples(samples_per_thread, total_threads)
  /\ seed \in 0 .. MaxSeed
  /\ h_block_results = [i \in Blocks |-> 0]
  /\ sum_i = 0
  /\ total_in_circle = 0
  /\ pi_estimate = [kind |-> "unset", num |-> 0, den |-> 1]
  /\ out = PlanLines
  /\ errs = << >>
  /\ exit_code = NoExit
  /\ backend = <<"cudaGetDevice", "cudaGetDeviceProperties", "cudaMalloc",
                 "cudaEventCreate(start)", "cudaEventCreate(stop)",
                 "cudaEventRecord(start)", "kernel launch", "cudaGetLastError",
                 "cudaEventRecord(stop)">>
  /\ last_err = "cudaSuccess"
  /\ kstate = "running"
  /\ d_block_results = [i \in Blocks |-> Uninit]
  /\ tpc = [b \in Blocks |-> [t \in Threads |-> "sample"]]
  /\ loop_i = [b \in Blocks |-> [t \in Threads |-> 0]]
  /\ local_count = [b \in Blocks |-> [t \in Threads |-> 0]]
  /\ rng = [b \in Blocks |->
             [t \in Threads |-> CurandInit(seed, GlobalThreadId(b, t))]]
  /\ red_s = [b \in Blocks |-> [t \in Threads |-> 0]]
  /\ tmp = [b \in Blocks |-> [t \in Threads |-> 0]]
  /\ nbar = [b \in Blocks |-> [t \in Threads |-> 0]]
  /\ shared_counts = [b \in Blocks |-> [t \in Threads |-> Uninit]]
  /\ lastw = [b \in Blocks |-> [t \in Threads |-> Uninit]]
  /\ lastr = [b \in Blocks |-> [t \in Threads |-> Uninit]]
  /\ br_writers = [i \in Blocks |-> << >>]

\* the kernel alone (lines 21-66), one block
SpecKernel == InitKernel /\ [][KernelNext]_vars

\* any step of thread t of block b
ThreadStep(b, t) ==
  \/ SampleIter(b, t)
  \/ Store(b, t)
  \/ PassBarrier(b, t)
  \/ ReduceRead(b, t)
  \/ ReduceAdd(b, t)
  \/ WriteResult(b, t)

\* the kernel alone, every thread of the resident block scheduled again and
\* again as long as it can take a step
FairKernel ==
  /\ SpecKernel
  /\ \A b \in 0 .. NumBlocks(1) - 1 : \A t \in Threads : WF_vars(ThreadStep(b, t))

\* the reduction alone (lines 50-65), over every assignment of hit counts
SpecReduce == InitReduce /\ [][ReduceNext]_vars

----------------------------------------------------------------------------
(* Claims *)

RECURSIVE SumUpTo(_, _)
\* f[0] + ... + f[n - 1], in the integers
SumUpTo(f, n) == IF n = 0 THEN 0 ELSE f[n - 1] + SumUpTo(f, n - 1)

\* the sum of the local counts of block b's threads
BlockSum(b) == SumUpTo(local_count[b], THREADS_PER_BLOCK)

\* thread 0 of block b is out of the halving loop
LoopOver(b) == tpc[b][0] \in {"final", "done"}

\* C1: for every assignment of local counts to the threads of a block and
\* every interleaving, once the halving loop is over shared_counts[0] is the
\* exact sum of the counts, and that sum is what block_results[block_id]
\* holds once thread 0 has stored it; with counts tid mod 4 the sum is the
\* sum of tid mod 4 over the block.
C1_ReductionSum ==
  \A b \in KBlocks :
    /\ LoopOver(b) => shared_counts[b][0] = BlockSum(b)
    /\ tpc[b][0] = "done" => d_block_results[b] = BlockSum(b)
    /\ (tpc[b][0] = "done" /\ \A t \in Threads : local_count[b][t] = t % 4)
         => d_block_results[b] = SumUpTo([t \in Threads |-> t % 4], THREADS_PER_BLOCK)

\* C1 witness: a block with counts tid mod 4, not all equal, whose partial
\* result has been stored
C1_Witness ==
  \E b \in KBlocks :
    /\ tpc[b][0] = "done"
    /\ \A t \in Threads : local_count[b][t] = t % 4
    /\ d_block_results[b] = 6

\* C2: whenever a thread has read shared_counts[tid + s] at step s, the slot's
\* last write was made before a barrier the reader has passed (its owner has
\* arrived at every barrier the reader has left, and wrote the slot in an
\* earlier barrier interval), and a slot that has been read by another thread
\* is not written in the interval of that read or later.
C2_BarrierOrdering ==
  \A b \in KBlocks : \A t \in Threads :
    /\ tpc[b][t] = "add" =>
         LET j == t + red_s[b][t]
         IN  /\ j \in Threads
             /\ Arrived(b, j) >= nbar[b][t]
             /\ lastw[b][j] # Uninit
             /\ lastw[b][j] < nbar[b][t]
    /\ lastr[b][t] # Uninit => lastw[b][t] # Uninit /\ lastw[b][t] < lastr[b][t]

\* C2 witness: at the last step (s = 1) thread 0 has read slot 1, whose last
\* write was thread 1's add of the step before
C2_Witness ==
  \E b \in KBlocks :
    /\ tpc[b][0] = "add"
    /\ red_s[b][0] = 1
    /\ nbar[b][0] = 2
    /\ lastw[b][1] = 1
    /\ lastr[b][1] = 2

\* ceil(a / b) in the integers
CeilDiv(a, b) == (a + b - 1) \div b

\* C3: for every requested total T >= 1 and worker count W >= 1 the plan main
\* computes has samples_per_thread = ceil(T / W) and actual_total_samples =
\* ceil(T / W) * W, which is at least T and a multiple of W.
C3_SamplePlan ==
  (hpc = "printPlan" /\ total_samples >= 1 /\ total_threads >= 1) =>
    /\ samples_per_thread = CeilDiv(total_samples, total_threads)
    /\ actual_total_samples = CeilDiv(total_samples, total_threads) * total_threads
    /\ actual_total_samples >= total_samples
    /\ actual_total_samples % total_threads = 0

\* main is past the device-to-host copy
AfterCopy ==
  \/ hpc \in {"sum", "eventSync", "elapsed", "estimate", "printResults",
              "destroyStart", "destroyStop", "free", "return"}
  \/ exit_code = 0

\* main is past the summation loop
AfterSum == AfterCopy /\ hpc # "sum"

\* the sum of the local counts of the threads of blocks 0 .. n - 1
GrandSum(n) == SumUpTo([b \in 0 .. n - 1 |-> BlockSum(b)], n)

\* C4: in a run that gets past the summation, total_in_circle is the sum of
\* the local counts of all threads of all blocks (after i iterations of the
\* loop, of the first i blocks): every count is included exactly once.
C4_CountConservation ==
  /\ hpc = "sum" => total_in_circle = GrandSum(sum_i)
  /\ AfterSum => KBlocks = Blocks /\ total_in_circle = GrandSum(num_blocks)

\* C4 witness: a completed run of two blocks with different, non-zero block
\* sums, made of threads with different counts
C4_Witness ==
  /\ exit_code = 0
  /\ num_blocks = 2
  /\ BlockSum(0) > 0
  /\ BlockSum(1) > 0
  /\ BlockSum(0) # BlockSum(1)
  /\ \E t, u \in Threads : local_count[0][t] # local_count[0][u]
  /\ total_in_circle = BlockSum(0) + BlockSum(1)

\* C5: in every state of every run 0 <= total_in_circle <=
\* actual_total_samples, and no thread's local_count exceeds
\* samples_per_thread.
C5_HitBound ==
  /\ 0 <= total_in_circle
  /\ total_in_circle <= actual_total_samples
  /\ \A b \in KBlocks : \A t \in Threads :
       /\ 0 <= local_count[b][t]
       /\ local_count[b][t] <= samples_per_thread

\* C5 witness: a completed run with some but not all samples in the circle,
\* in which a thread counted every one of its samples
C5_Witness ==
  /\ exit_code = 0
  /\ 0 < total_in_circle
  /\ total_in_circle < actual_total_samples
  /\ \E b \in KBlocks : \E t \in Threads :
       samples_per_thread > 0 /\ local_count[b][t] = samples_per_thread

\* C6: the program never divides by zero: the estimate, once formed, is the
\* quotient of a division by a non-zero actual_total_samples.
C6_NoDivisionByZero == pi_estimate.kind \in {"unset", "finite"}

\* the string is a decimal numeral: one or more digits and nothing else
IsNumeral(str) == Len(str) > 0 /\ \A i \in 1 .. Len(str) : IsDigit(str[i])

\* C7: when argv[1] is given and is not a number, main prints the
\* invalid-argument diagnostic and exits with code 1, and makes no runtime
\* call at all.
C7_NonNumericRejected ==
  (argv # NoArg /\ ~IsNumeral(argv) /\ hpc # "parse") =>
    /\ hpc = "exited"
    /\ exit_code = 1
    /\ errs = << <<"Invalid argument", argv>> >>
    /\ backend = << >>

RECURSIVE Log2(_)
Log2(n) == IF n <= 1 THEN 0 ELSE 1 + Log2(n \div 2)

\* the barriers every thread goes through: line 52, then line 59 once per step
NumBarriers == 1 + Log2(THREADS_PER_BLOCK)

\* C8: block_results[i] is written at most once, only by thread 0 of block i,
\* only after every thread of block i has arrived at the barrier of the last
\* reduction step, and exactly once by the time thread 0 has left the kernel.
C8_SingleWriter ==
  \A i \in DOMAIN br_writers :
    /\ Len(br_writers[i]) <= 1
    /\ \A k \in 1 .. Len(br_writers[i]) : br_writers[i][k] = <<i, 0>>
    /\ Len(br_writers[i]) >= 1 =>
         /\ red_s[i][0] = 0
         /\ \A u \in Threads : Arrived(i, u) >= NumBarriers
    /\ tpc[i][0] = "done" => Len(br_writers[i]) = 1

\* C8 witness: a kernel of two blocks, each of which has stored its result
C8_Witness ==
  /\ DOMAIN br_writers = {0, 1}
  /\ br_writers[0] = << <<0, 0>> >>
  /\ br_writers[1] = << <<1, 0>> >>
  /\ d_block_results[0] # Uninit
  /\ d_block_results[1] # Uninit

\* C9: whenever main is past the copy, every thread of every block has left
\* the kernel, every block_results[i] has had its one write, and the host
\* copy holds exactly the values written.
C9_HostAfterKernel ==
  AfterCopy =>
    /\ kstate = "running"
    /\ KBlocks = Blocks
    /\ KernelDone
    /\ \A i \in Blocks :
         /\ Len(br_writers[i]) = 1
         /\ d_block_results[i] # Uninit
         /\ h_block_results[i] = d_block_results[i]

\* C9 witness: main in the summation loop of a two-block run, one result added
C9_Witness ==
  /\ hpc = "sum"
  /\ sum_i = 1
  /\ num_blocks = 2
  /\ h_block_results[1] > 0

\* the runtime calls main checks before it prints its results
CheckedBeforeResults ==
  {"cudaGetDevice", "cudaGetDeviceProperties", "cudaMalloc",
   "cudaEventCreate(start)", "cudaEventCreate(stop)", "cudaEventRecord(start)",
   "cudaGetLastError", "cudaMemcpy", "cudaEventRecord(stop)",
   "cudaEventSynchronize", "cudaEventElapsedTime"}

ResultLineSet == {ResultLines[k] : k \in 1 .. Len(ResultLines)}

\* C10: once a runtime call has returned an error the process has exited with
\* EXIT_FAILURE, its only diagnostic names that call, that call is the last
\* one made, nothing further can happen, and if the call is one of those made
\* before the results no result line has been printed.
C10_FailFast ==
  last_err = "cudaError" =>
    /\ hpc = "exited"
    /\ exit_code = EXIT_FAILURE
    /\ errs = << <<"CUDA error", backend[Len(backend)]>> >>
    /\ ~ENABLED Next
    /\ backend[Len(backend)] \in CheckedBeforeResults =>
         \A k \in 1 .. Len(out) : out[k] \notin ResultLineSet

\* C10 witness: the copy failed while the kernel was being waited for
C10_Witness ==
  /\ last_err = "cudaError"
  /\ backend[Len(backend)] = "cudaMemcpy"
  /\ hpc = "exited"
  /\ out = PlanLines

\* the hits among the first n pairs drawn one after the other from a
\* generator in state st
RECURSIVE SeqHits(_, _)
SeqHits(st, n) ==
  IF n = 0 THEN 0
  ELSE LET x == CurandUniform(st)
           y == CurandUniform(CurandNext(st))
       IN  (IF x * x + y * y <= CoordSteps * CoordSteps THEN 1 ELSE 0)
             + SeqHits(CurandNext(CurandNext(st)), n - 1)

\* what block b counts when its threads run one after the other
SeqBlock(sd, n, b) ==
  SumUpTo([t \in Threads |-> SeqHits(CurandInit(sd, GlobalThreadId(b, t)), n)],
          THREADS_PER_BLOCK)

\* what slot j of block b holds before step s of the halving loop when the
\* threads run one after the other: the counts of the threads k = j mod 2s
SeqSlot(sd, n, b, j, s) ==
  SumUpTo([k \in Threads |->
             IF k % (2 * s) = j
               THEN SeqHits(CurandInit(sd, GlobalThreadId(b, k)), n)
               ELSE 0],
          THREADS_PER_BLOCK)

\* C11: the results are a function of the seed, samples_per_thread and the
\* launch configuration alone, whatever the interleaving of the threads:
\* every operand a thread reads from shared memory and block_results[b], once
\* stored, are what they are when the threads run one after the other, the
\* host copy and total_in_circle are the same values and their sum, and
\* actual_total_samples is samples_per_thread times the number of threads.
C11_Determinism ==
  /\ \A b \in KBlocks : \A t \in Threads :
       tpc[b][t] = "add" =>
         tmp[b][t] = SeqSlot(seed, samples_per_thread, b, t + red_s[b][t],
                             red_s[b][t])
  /\ \A b \in KBlocks :
       tpc[b][0] = "done" =>
         d_block_results[b] = SeqBlock(seed, samples_per_thread, b)
  /\ AfterCopy =>
       \A i \in Blocks :
         h_block_results[i] = SeqBlock(seed, samples_per_thread, i)
  /\ AfterSum =>
       total_in_circle =
         SumUpTo([i \in Blocks |-> SeqBlock(seed, samples_per_thread, i)],
                 num_blocks) % ULL_MOD
  /\ actual_total_samples =
       (samples_per_thread * num_blocks * THREADS_PER_BLOCK) % ULL_MOD

\* C11 witness: a completed two-block run whose total is the sum of what the
\* two blocks count sequentially, with threads that count differently
C11_Witness ==
  /\ exit_code = 0
  /\ num_blocks = 2
  /\ samples_per_thread > 0
  /\ SeqBlock(seed, samples_per_thread, 0) # SeqBlock(seed, samples_per_thread, 1)
  /\ total_in_circle = SeqBlock(seed, samples_per_thread, 0)
                         + SeqBlock(seed, samples_per_thread, 1)
  /\ total_in_circle > 0

\* the threads of the running kernel
KThreads == KBlocks \X Threads

\* C12: in a running kernel every thread's global_thread_id is block_id *
\* blockDim.x + tid without wrap-around, lies in [0, total_threads) and is
\* that of no other thread, and every generator is initialised with seed +
\* global_thread_id (modulo 2^64), a value no other thread's generator is
\* initialised with.
C12_StreamIdentity ==
  kstate = "running" =>
    /\ \A w \in KThreads :
         /\ GlobalThreadId(w[1], w[2]) = w[1] * THREADS_PER_BLOCK + w[2]
         /\ GlobalThreadId(w[1], w[2]) \in 0 .. total_threads - 1
         /\ rng[w[1]][w[2]][1] = (seed + GlobalThreadId(w[1], w[2])) % ULL_MOD
    /\ \A w, v \in KThreads :
         w # v =>
           /\ GlobalThreadId(w[1], w[2]) # GlobalThreadId(v[1], v[2])
           /\ rng[w[1]][w[2]][1] # rng[v[1]][v[2]][1]

\* C12 witness: a two-block kernel launched with the largest seed, so that
\* seed + global_thread_id wraps around for every thread but the first
C12_Witness ==
  /\ kstate = "running"
  /\ KBlocks = {0, 1}
  /\ seed = ULLONG_MAX
  /\ rng[0][0] = <<ULLONG_MAX, 0>>
  /\ rng[0][1] = <<0, 0>>
  /\ rng[1][THREADS_PER_BLOCK - 1] = <<total_threads - 2, 0>>

\* C13: a thread of the kernel has drawn two variates from its own generator
\* for each iteration made and none otherwise, makes no more than
\* samples_per_thread iterations and exactly that many by the time it leaves
\* the loop, and its local_count is the number of the pairs drawn so far with
\* x * x + y * y <= 1, a pair on the circle included; with samples_per_thread
\* = 0 nothing is drawn and local_count stays 0.
C13_SamplerCount ==
  \A b \in KBlocks : \A t \in Threads :
    /\ rng[b][t] = <<(seed + b * THREADS_PER_BLOCK + t) % ULL_MOD,
                     2 * loop_i[b][t]>>
    /\ loop_i[b][t] <= samples_per_thread
    /\ tpc[b][t] # "sample" => loop_i[b][t] = samples_per_thread
    /\ local_count[b][t] =
         SeqHits(<<(seed + b * THREADS_PER_BLOCK + t) % ULL_MOD, 0>>, loop_i[b][t])
    /\ samples_per_thread = 0 => rng[b][t][2] = 0 /\ local_count[b][t] = 0

\* the pair a generator in state st gives is on the circle
OnCircle(st) ==
  LET x == CurandUniform(st)
      y == CurandUniform(CurandNext(st))
  IN  x * x + y * y = CoordSteps * CoordSteps

\* C13 witness: a thread that left the loop after three iterations, its
\* first pair on the circle and counted, another pair outside and not counted
C13_Witness ==
  \E b \in KBlocks : \E t \in Threads :
    /\ tpc[b][t] = "sync"
    /\ samples_per_thread = 3
    /\ rng[b][t][2] = 6
    /\ OnCircle(<<rng[b][t][1], 0>>)
    /\ SeqHits(<<rng[b][t][1], 0>>, 1) = 1
    /\ local_count[b][t] \in 1 .. 2

\* main has made its plan (lines 86-92)
Planned == total_threads > 0

C15_BarrierTermination ==
  /\ [](\A b \in KBlocks : \A t \in Threads :
          /\ nbar[b][t] <= NumBarriers
          /\ tpc[b][t] \in {"final", "done"} => nbar[b][t] = NumBarriers)
  /\ <>[](KBlocks # {} /\ KernelDone)

\* C15 witness: the last thread of the block, never inside the guard
\* tid < s, has passed every barrier and left the kernel along with the
\* others, each after MaxSamples samples
C15_Witness ==
  /\ KBlocks = {0}
  /\ KernelDone
  /\ samples_per_thread = MaxSamples
  /\ \A t \in Threads : nbar[0][t] = NumBarriers /\ loop_i[0][t] = MaxSamples

\* thread t of block b takes the step
Moved(b, t) ==
  \/ tpc'[b][t] # tpc[b][t]
  \/ loop_i'[b][t] # loop_i[b][t]
  \/ nbar'[b][t] # nbar[b][t]

\* a step within one kernel run
SameKernel == kstate = "running" /\ kstate' = "running" /\ DOMAIN tpc' = DOMAIN tpc

\* C16: in every step of a running kernel, an iteration of the sampling loop
\* changes nothing but the local_count, generator and loop counter of the
\* thread that makes it; local_count and the generator of a thread are
\* changed by that thread only; slot shared_counts[t] of a block is changed
\* only by thread t of that block, at the store of line 51 or the add of line
\* 57; and block_results[b] is changed only by a thread of block b at line
\* 64, so a step of one block leaves the scratch and the partial result of
\* every other block as they are.
C16_Frame ==
  [][SameKernel =>
       \A b \in KBlocks :
         /\ \A t \in Threads :
              /\ (tpc[b][t] = "sample" /\ loop_i'[b][t] # loop_i[b][t]) =>
                   /\ shared_counts' = shared_counts
                   /\ d_block_results' = d_block_results
                   /\ tpc' = tpc /\ nbar' = nbar /\ red_s' = red_s /\ tmp' = tmp
                   /\ \A c \in KBlocks : \A u \in Threads :
                        <<c, u>> # <<b, t>> =>
                          /\ local_count'[c][u] = local_count[c][u]
                          /\ rng'[c][u] = rng[c][u]
                          /\ loop_i'[c][u] = loop_i[c][u]
              /\ (local_count'[b][t] # local_count[b][t] \/ rng'[b][t] # rng[b][t]) =>
                   Moved(b, t) /\ tpc[b][t] = "sample"
              /\ shared_counts'[b][t] # shared_counts[b][t] =>
                   Moved(b, t) /\ tpc[b][t] \in {"sample", "add"}
                     /\ tpc'[b][t] = "sync"
         /\ d_block_results'[b] # d_block_results[b] =>
              \E t \in Threads : Moved(b, t) /\ tpc[b][t] = "final"
         /\ (\E t \in Threads : Moved(b, t)) =>
              \A c \in KBlocks \ {b} :
                /\ shared_counts'[c] = shared_counts[c]
                /\ d_block_results'[c] = d_block_results[c]
                /\ local_count'[c] = local_count[c]
  ]_vars

\* C16 witness: block 0 has stored its partial result while block 1 is still
\* sampling: block 1 has counted a hit, and its scratch and its partial
\* result are untouched
C16_Witness ==
  /\ kstate = "running"
  /\ KBlocks = {0, 1}
  /\ d_block_results[0] # Uninit
  /\ Len(br_writers[0]) = 1
  /\ d_block_results[1] = Uninit
  /\ \A t \in Threads : shared_counts[1][t] = Uninit /\ tpc[1][t] = "sample"
  /\ \E t \in Threads : local_count[1][t] > 0

\* C17: every block of the kernel has THREADS_PER_BLOCK threads and a scratch
\* array of that length, a power of two; after its k-th barrier a thread's s
\* is THREADS_PER_BLOCK / 2^k, so the last s above 0 is 1; and a thread about
\* to read shared_counts[tid + s], or that has read it, has tid < s and
\* tid + s inside the array, as is the slot tid it writes.
C17_IndexSafety ==
  /\ 2^Log2(THREADS_PER_BLOCK) = THREADS_PER_BLOCK
  /\ \A b \in KBlocks :
       /\ DOMAIN tpc[b] = 0 .. THREADS_PER_BLOCK - 1
       /\ DOMAIN shared_counts[b] = 0 .. THREADS_PER_BLOCK - 1
       /\ \A t \in DOMAIN tpc[b] :
            /\ nbar[b][t] >= 1 =>
                 red_s[b][t] = THREADS_PER_BLOCK \div 2^nbar[b][t]
            /\ nbar[b][t] = NumBarriers - 1 => red_s[b][t] = 1
            /\ tpc[b][t] \in {"reduce", "add"} =>
                 /\ red_s[b][t] >= 1
                 /\ t < red_s[b][t]
                 /\ t + red_s[b][t] \in DOMAIN shared_counts[b]
            /\ tpc[b][t] \in {"sample", "add"} => t \in DOMAIN shared_counts[b]

\* C17 witness: at the first step thread blockDim.x / 2 - 1 has read the
\* last slot of the array
C17_Witness ==
  \E b \in KBlocks :
    /\ tpc[b][THREADS_PER_BLOCK \div 2 - 1] = "add"
    /\ red_s[b][THREADS_PER_BLOCK \div 2 - 1] = THREADS_PER_BLOCK \div 2
    /\ lastr[b][THREADS_PER_BLOCK - 1] = 1
    /\ tmp[b][THREADS_PER_BLOCK \div 2 - 1] = shared_counts[b][THREADS_PER_BLOCK - 1]

\* the value main takes from the command line
ArgValue == IF argv = NoArg THEN 2^DefaultShift ELSE stoull(argv).value

\* C18: whatever the argument, once main is past lines 70-77 and before its
\* first runtime call it has either exited with code 1 after the
\* invalid-argument diagnostic or goes on with total_samples the value parsed
\* from the argument (2^30, scaled, when there is none); there is no other
\* way out, and total_samples keeps that value in the runtime calls.
C18_ArgumentTotal ==
  /\ (hpc # "parse" /\ backend = << >>) =>
       \/ /\ hpc = "exited"
          /\ exit_code = 1
          /\ errs = << <<"Invalid argument", argv>> >>
          /\ out = << >>
       \/ /\ hpc = "getDevice"
          /\ exit_code = NoExit
          /\ errs = << >>
          /\ total_samples = ArgValue
  /\ backend # << >> => total_samples = ArgValue
  /\ (argv = NoArg /\ hpc # "parse") => total_samples = 2^DefaultShift

====
